---------------------------- MODULE Spec2Model ----------------------------
(***************************************************************************)
(* effect-builder, src/Builder.ts (v0.3.0 section, lines 165-358).         *)
(*                                                                         *)
(* A builder is made by define(schema, defaults): it resolves the default  *)
(* Partial State once, exposes lenses (get / set / modify) per field, the  *)
(* combinators compose and when, and build(transform), which applies the   *)
(* transform to the resolved defaults and decodes the result against the   *)
(* schema.                                                                 *)
(*                                                                         *)
(* JavaScript values are encoded as records of one shape                   *)
(*   [t |-> tag, n |-> number, s |-> string, l |-> list of values]         *)
(* so that values of different JavaScript types can be compared.           *)
(* A Partial State is a function whose DOMAIN is the set of own keys of    *)
(* the object; a key may be present and bound to undefined.                *)
(***************************************************************************)
EXTENDS Integers, Sequences, FiniteSets, TLC

\* Longest argument list given to compose.
MaxChain == 2

\* Number of build calls made on one builder.
MaxBuilds == 2

----------------------------------------------------------------------------
\* JavaScript values

Undef == [t |-> "undefined", n |-> 0, s |-> "", l |-> << >>]

Num(i) == [t |-> "number", n |-> i, s |-> "", l |-> << >>]

Str(x) == [t |-> "string", n |-> 0, s |-> x, l |-> << >>]

List(xs) == [t |-> "array", n |-> 0, s |-> "", l |-> xs]

\* JavaScript truthiness (ToBoolean): undefined, 0 and "" are falsy; every
\* array, the empty one included, is truthy.
Truthy(v) ==
  CASE v.t = "undefined" -> FALSE
    [] v.t = "number" -> v.n # 0
    [] v.t = "string" -> v.s # ""
    [] OTHER -> TRUE

\* Object spread { ...a, ...b }: the own keys of both, b's binding winning.
Spread(a, b) ==
  [x \in (DOMAIN a) \cup (DOMAIN b) |-> IF x \in DOMAIN b THEN b[x] ELSE a[x]]

\* The empty object {}.
EmptyObj == [x \in {} |-> Undef]

\* Object literal { [key]: value }.
Single(key, value) == [x \in {key} |-> value]

----------------------------------------------------------------------------
\* The schema of the tests: UserSchema.

\* Object.entries(schema.fields), in declaration order.
Fields == <<"id", "name", "age", "roles">>

Keys == {Fields[i] : i \in 1..Len(Fields)}

\* Functions the callers pass to modify.
\*   inc          (age) => (age ?? 0) + 1
\*   withUser     (roles = []) => [...roles, "user"]
\*   withAdmin    (roles = []) => [...roles, "admin"]
\*   clear        () => undefined
ApplyFn(f, value) ==
  CASE f = "inc" -> Num((IF value = Undef THEN 0 ELSE value.n) + 1)
    [] f = "withUser" ->
         List(Append(IF value = Undef THEN << >> ELSE value.l, Str("user")))
    [] f = "withAdmin" ->
         List(Append(IF value = Undef THEN << >> ELSE value.l, Str("admin")))
    [] f = "clear" -> Undef
    [] OTHER -> value

----------------------------------------------------------------------------
\* createLens

get(key, s) == IF key \in DOMAIN s THEN s[key] ELSE Undef

\* set with the spread operands swapped: { [key]: value, ...state }.
set_keepExisting(key, value, state) == Spread(Single(key, value), state)

\* set without the ...state spread: only the written key is returned.
set_dropsOthers(key, value, state) == Single(key, value)

set(key, value, state) == Spread(state, Single(key, value))

\* modify without the undefined guard: f is applied to an absent field too.
modify_noGuard(key, f, state) ==
  Spread(state, Single(key, ApplyFn(f, get(key, state))))

\* modify without the ...state spread: only the modified key is returned.
modify_dropsOthers(key, f, state) ==
  IF get(key, state) = Undef
    THEN state
    ELSE Single(key, ApplyFn(f, get(key, state)))

\* modify guarding on truthiness: if (!currentValue) return state.
modify_truthyGuard(key, f, state) ==
  IF ~Truthy(get(key, state))
    THEN state
    ELSE Spread(state, Single(key, ApplyFn(f, get(key, state))))

modify(key, f, state) ==
  LET currentValue == get(key, state)
  IN  IF currentValue = Undef
        THEN state
        ELSE Spread(state, Single(key, ApplyFn(f, currentValue)))


----------------------------------------------------------------------------
\* Transforms, as the expressions a caller writes:
\*   field(k).set(v)          [op |-> "set", k, v]
\*   field(k).modify(f)       [op |-> "modify", k, f]
\*   compose(t1, ..., tn)     [op |-> "compose", ts |-> <<t1, ..., tn>>]
\*   when(p, ifTrue)          [op |-> "when", p, ts |-> <<ifTrue>>]
\*   when(p, ifTrue, ifFalse) [op |-> "when", p, ts |-> <<ifTrue, ifFalse>>]
\* and a transform a caller writes by hand, which writes its argument:
\*   (a) => { a[k] = v; return a }   [op |-> "assign", k, v]

NoT == [op |-> "none", k |-> "", v |-> Undef, f |-> "", p |-> "", ts |-> << >>]

SetT(key, value) == [NoT EXCEPT !.op = "set", !.k = key, !.v = value]

ModifyT(key, fn) == [NoT EXCEPT !.op = "modify", !.k = key, !.f = fn]

ComposeT(transforms) == [NoT EXCEPT !.op = "compose", !.ts = transforms]

AssignT(key, value) == [NoT EXCEPT !.op = "assign", !.k = key, !.v = value]

WhenT(predicate, ifTrue, ifFalse) ==
  [NoT EXCEPT !.op = "when", !.p = predicate, !.ts = <<ifTrue, ifFalse>>]

When1T(predicate, ifTrue) ==
  [NoT EXCEPT !.op = "when", !.p = predicate, !.ts = <<ifTrue>>]

\* Predicates the callers pass to when; each reads the whole Partial State.
\*   isAdult   (user) => user.age !== undefined && user.age >= 18
\*   over50    (user) => (user.age ?? 0) > 50
\*   hasRoles  (user) => user.roles !== undefined && user.roles.length > 0
Pred(predicate, a) ==
  CASE predicate = "isAdult" ->
         get("age", a) # Undef /\ get("age", a).n >= 18
    [] predicate = "over50" ->
         (IF get("age", a) = Undef THEN 0 ELSE get("age", a).n) > 50
    [] predicate = "hasRoles" ->
         get("roles", a) # Undef /\ Len(get("roles", a).l) > 0
    [] OTHER -> FALSE

RECURSIVE Apply(_, _)
RECURSIVE reduce(_, _, _)

\* transforms.reduce((acc, transform) => transform(acc), a), from index i on.
reduce(transforms, i, acc) ==
  IF i > Len(transforms)
    THEN acc
    ELSE reduce(transforms, i + 1, Apply(transforms[i], acc))

Reverse(xs) == [i \in 1..Len(xs) |-> xs[Len(xs) + 1 - i]]

\* compose folding from the right (reduceRight).
compose_reversed(transforms, a) == reduce(Reverse(transforms), 1, a)

\* compose handing the input state to every transform: transform(a) for
\* transform(acc), so that the last transform's result is returned.
compose_eachOnInput(transforms, a) ==
  IF Len(transforms) = 0 THEN a ELSE Apply(transforms[Len(transforms)], a)

\* compose folding from the second transform on: the first one is dropped.
compose_skipsFirst(transforms, a) == reduce(transforms, 2, a)

compose(transforms, a) == reduce(transforms, 1, a)

\* when with the branches swapped: predicate(a) ? ifFalse(a) : ifTrue(a).
when_swapped(predicate, branches, a) ==
  IF Pred(predicate, a)
    THEN IF Len(branches) > 1 THEN Apply(branches[2], a) ELSE a
    ELSE Apply(branches[1], a)

\* ifFalse defaults to (a) => a.
when(predicate, branches, a) ==
  IF Pred(predicate, a)
    THEN Apply(branches[1], a)
    ELSE IF Len(branches) > 1 THEN Apply(branches[2], a) ELSE a

\* The call transform(a).
Apply(transform, a) ==
  CASE transform.op = "set" -> set(transform.k, transform.v, a)
    [] transform.op = "modify" -> modify(transform.k, transform.f, a)
    [] transform.op = "compose" -> compose(transform.ts, a)
    [] transform.op = "when" -> when(transform.p, transform.ts, a)
    [] transform.op = "assign" -> Spread(a, Single(transform.k, transform.v))
    [] OTHER -> a

----------------------------------------------------------------------------
\* The same calls with their effect on the object they are given. The result
\* of running a transform on the object a:
\*   ret    the object returned (Apply(transform, a))
\*   same   whether the object returned is a itself
\*   arg    a after the call

\* set writing the state it is given: state[key] = value; return state.
runSet_inPlace(key, value, a) ==
  [ret |-> set(key, value, a), same |-> TRUE, arg |-> set(key, value, a)]

\* set returns a new object literal.
runSet(key, value, a) ==
  [ret |-> set(key, value, a), same |-> FALSE, arg |-> a]

\* modify writing the state it is given: state[key] = f(currentValue).
runModify_inPlace(key, f, a) ==
  [ret |-> modify(key, f, a), same |-> TRUE, arg |-> modify(key, f, a)]

\* modify returns state itself when the field is undefined, else a new
\* object literal.
runModify(key, f, a) ==
  [ret |-> modify(key, f, a), same |-> get(key, a) = Undef, arg |-> a]

\* (a) => { a[key] = value; return a }
runAssign(key, value, a) ==
  [ret |-> Spread(a, Single(key, value)), same |-> TRUE,
   arg |-> Spread(a, Single(key, value))]

RECURSIVE Run(_, _)
RECURSIVE runReduce(_, _, _)

\* transforms.reduce((acc, transform) => transform(acc), a), from index i
\* on: a write to acc reaches a as long as acc is a itself.
runReduce(transforms, i, acc) ==
  IF i > Len(transforms)
    THEN acc
    ELSE LET x == Run(transforms[i], acc.ret)
         IN  runReduce(transforms, i + 1,
               [ret |-> x.ret,
                same |-> acc.same /\ x.same,
                arg |-> IF acc.same THEN x.arg ELSE acc.arg])

runCompose(transforms, a) ==
  runReduce(transforms, 1, [ret |-> a, same |-> TRUE, arg |-> a])

runWhen(predicate, branches, a) ==
  IF Pred(predicate, a)
    THEN Run(branches[1], a)
    ELSE IF Len(branches) > 1
           THEN Run(branches[2], a)
           ELSE [ret |-> a, same |-> TRUE, arg |-> a]

Run(transform, a) ==
  CASE transform.op = "set" -> runSet(transform.k, transform.v, a)
    [] transform.op = "modify" -> runModify(transform.k, transform.f, a)
    [] transform.op = "compose" -> runCompose(transform.ts, a)
    [] transform.op = "when" -> runWhen(transform.p, transform.ts, a)
    [] transform.op = "assign" -> runAssign(transform.k, transform.v, a)
    [] OTHER -> [ret |-> a, same |-> TRUE, arg |-> a]

----------------------------------------------------------------------------
\* createBuilderLens and createBuilderLenses

\* createBuilderLens with every accessor bound to the last declared field.
createBuilderLens_lastKey(key) == [lens |-> Fields[Len(Fields)]]

\* The callable Object.assign(setter, { get, modify }): its three parts
\* close over one lens, createLens(key).
createBuilderLens(key) == [lens |-> key]

\* builder.k(value)(state): setter = (value) => lens.set(value)
accessorSet(accessor, value, state) == set(accessor.lens, value, state)

\* builder.k.get(s)
accessorGet(accessor, s) == get(accessor.lens, s)

\* builder.k.modify(f)(state)
accessorModify(accessor, f, state) == modify(accessor.lens, f, state)

RECURSIVE lensesReduce(_, _)

\* ReadonlyArray.reduce over Object.entries(schema.fields), from index i on.
lensesReduce(i, acc) ==
  IF i > Len(Fields) THEN acc
  ELSE lensesReduce(i + 1,
         Spread(acc, Single(Fields[i], createBuilderLens(Fields[i]))))

createBuilderLenses == lensesReduce(1, EmptyObj)

----------------------------------------------------------------------------
\* The schema collaborator (effect Schema), as far as the builder uses it.
\* A schema is UserSchema with its default annotations:
\*   fieldAnn[k]  SchemaAST.getDefaultAnnotation(field.ast), an Option
\*   structAnn    SchemaAST.getDefaultAnnotation(schema.ast), an Option

None == [some |-> FALSE, value |-> Undef]

Some(x) == [some |-> TRUE, value |-> x]

NoneObj == [some |-> FALSE, value |-> EmptyObj]

\* UserSchema with age: Number, no refinement.
FieldIssue_noRefinement(key, u) ==
  IF key \notin DOMAIN u THEN "is missing"
  ELSE CASE key \in {"id", "age"} /\ u[key].t # "number" -> "Expected number"
         [] key = "name" /\ u[key].t # "string" -> "Expected string"
         [] key = "roles" /\ u[key].t # "array" ->
              "Expected ReadonlyArray<string>"
         [] key = "roles" /\ \E i \in 1..Len(u[key].l) :
                               u[key].l[i].t # "string" -> "Expected string"
         [] OTHER -> ""

\* UserSchema: id: Number, name: String,
\* age: Number.pipe(positive(), int()), roles: Array(String).
\* The issue decoding the value of one field raises, "" when it raises none.
FieldIssue(key, u) ==
  IF key \notin DOMAIN u THEN "is missing"
  ELSE CASE key \in {"id", "age"} /\ u[key].t # "number" -> "Expected number"
         [] key = "age" /\ u[key].n <= 0 -> "Expected a positive number"
         [] key = "name" /\ u[key].t # "string" -> "Expected string"
         [] key = "roles" /\ u[key].t # "array" ->
              "Expected ReadonlyArray<string>"
         [] key = "roles" /\ \E i \in 1..Len(u[key].l) :
                               u[key].l[i].t # "string" -> "Expected string"
         [] OTHER -> ""

RECURSIVE firstIssue(_, _)

\* The property signatures are decoded in declaration order and the first
\* issue ends the decoding (ParseOptions errors: "first").
firstIssue(i, u) ==
  IF i > Len(Fields) THEN << >>
  ELSE IF FieldIssue(Fields[i], u) # ""
         THEN <<Fields[i], FieldIssue(Fields[i], u)>>
         ELSE firstIssue(i + 1, u)

\* Schema.decodeUnknown(schema)(u): Right with the declared properties of u
\* (excess properties are dropped), or Left with the ParseError.
decodeUnknown(u) ==
  IF firstIssue(1, u) = << >>
    THEN [ok |-> TRUE,
          value |-> [x \in Keys \cap DOMAIN u |-> u[x]],
          error |-> << >>]
    ELSE [ok |-> FALSE, value |-> EmptyObj, error |-> firstIssue(1, u)]

----------------------------------------------------------------------------
\* getSchemaDefaults

RECURSIVE fieldDefaults(_, _, _)

\* Object.entries(schema.fields).reduce(..., {}), from index i on.
fieldDefaults(sch, i, acc) ==
  IF i > Len(Fields) THEN acc
  ELSE LET key == Fields[i]
           fieldDefault == IF sch.fieldAnn[key].some
                             THEN sch.fieldAnn[key].value
                             ELSE Undef
       IN  fieldDefaults(sch, i + 1,
             IF Truthy(fieldDefault)
               THEN Spread(acc, Single(key, fieldDefault))
               ELSE acc)

\* getSchemaDefaults with the field-level defaults spread last.
getSchemaDefaults_fieldWins(sch) ==
  Spread(IF sch.structAnn.some THEN sch.structAnn.value ELSE EmptyObj,
         fieldDefaults(sch, 1, EmptyObj))

getSchemaDefaults(sch) ==
  LET structDefaults == IF sch.structAnn.some
                          THEN sch.structAnn.value
                          ELSE EmptyObj
  IN  Spread(fieldDefaults(sch, 1, EmptyObj), structDefaults)

----------------------------------------------------------------------------
\* define and build

\* The caller's defaults argument: an Option, None when it is omitted
\* (spreading undefined adds no key).
\* mergedDefaults with the schema defaults spread last.
mergedDefaults_schemaWins(sch, dflt) ==
  Spread(IF dflt.some THEN dflt.value ELSE EmptyObj, getSchemaDefaults(sch))

mergedDefaults(sch, dflt) ==
  Spread(getSchemaDefaults(sch), IF dflt.some THEN dflt.value ELSE EmptyObj)

\* The returned object { ...lenses, schema, Default, field, when, build }:
\* the members field, when and build are named by the function they hold.
define(sch, dflt) ==
  Spread(createBuilderLenses,
         [schema |-> sch, Default |-> mergedDefaults(sch, dflt),
          field |-> "createLens", when |-> "when", build |-> "build"])

NoOutcome == [tag |-> "none", value |-> EmptyObj, message |-> << >>]

\* mapError with a fixed message, the ParseError dropped.
mapError_generic(error) ==
  [tag |-> "ValidationError", value |-> EmptyObj,
   message |-> <<"Schema validation failed: ", "", "">>]

\* Effect.mapError((error) => new ValidationError({ message:
\*   `Schema validation failed: ${error}` }))
mapError(error) ==
  [tag |-> "ValidationError", value |-> EmptyObj,
   message |-> <<"Schema validation failed: ">> \o error]

\* build applying the transform to {} instead of the resolved defaults.
build_onEmpty(b, transform) ==
  LET decoded == decodeUnknown(Apply(transform, EmptyObj))
  IN  IF decoded.ok
        THEN [tag |-> "Success", value |-> decoded.value, message |-> << >>]
        ELSE mapError(decoded.error)

\* build returning the transformed state without decoding it.
build_noDecode(b, transform) ==
  [tag |-> "Success", value |-> Apply(transform, b.Default),
   message |-> << >>]

\* build decoding the defaults, the transform's result dropped.
build_ignoresTransform(b, transform) ==
  LET decoded == decodeUnknown(b.Default)
  IN  IF decoded.ok
        THEN [tag |-> "Success", value |-> decoded.value, message |-> << >>]
        ELSE mapError(decoded.error)

build(b, transform) ==
  LET decoded == decodeUnknown(Apply(transform, b.Default))
  IN  IF decoded.ok
        THEN [tag |-> "Success", value |-> decoded.value, message |-> << >>]
        ELSE mapError(decoded.error)

\* build of v0.1.0 spreading the input over the defaults: { ...defaults, ...a }.
buildV010_inputWins(dflt, a) ==
  LET decoded == decodeUnknown(Spread(dflt, a))
  IN  IF decoded.ok
        THEN [tag |-> "Success", value |-> decoded.value, message |-> << >>]
        ELSE mapError(decoded.error)

\* build of the v0.1.0 builder, which takes the state and not a transform:
\* pipe({ ...a, ...defaults }, Schema.decodeUnknown(schema), Effect.mapError)
buildV010(dflt, a) ==
  LET decoded == decodeUnknown(Spread(a, dflt))
  IN  IF decoded.ok
        THEN [tag |-> "Success", value |-> decoded.value, message |-> << >>]
        ELSE mapError(decoded.error)

\* The object builder.Default holds once build(transform) has run:
\* transform(mergedDefaults) is handed the object Default holds, not a copy.
defaultAfterBuild(b, transform) == Run(transform, b.Default).arg

\* One defaults object shared by every builder: that of the first define.
closureOf_shared(i) == CHOOSE j \in {1, 2} : \A k \in {1, 2} : j <= k

\* The builder whose mergedDefaults the build function of builder i closes
\* over: each define call makes its own.
closureOf(i) == i

\* A lens working on the defaults of the builder that made it.
lensState_ofMaker(from, i) == from

\* The builder whose state a transform made from the lenses of builder
\* `from` works on when it is given to builder i: a lens holds its key and
\* nothing else, the state is the one build hands it.
lensState(from, i) == i

RECURSIVE viaLenses(_, _)

\* The transform made through the accessors of the builder b: b.k(value),
\* b.k.modify(f), and compose and when over these.
viaLenses(b, transform) ==
  CASE transform.op = "set" -> SetT(b[transform.k].lens, transform.v)
    [] transform.op = "modify" -> ModifyT(b[transform.k].lens, transform.f)
    [] transform.op \in {"compose", "when"} ->
         [transform EXCEPT
            !.ts = [n \in 1..Len(transform.ts) |->
                      viaLenses(b, transform.ts[n])]]
    [] OTHER -> transform

----------------------------------------------------------------------------
\* define and build over any Schema.Struct. Such a schema is
\*   fields     the declared keys, in declaration order
\*   types      the schema of each field: "string", "number", "positiveInt"
\*              (Number.pipe(positive(), int())) or "strings" (Array(String))
\*   fieldAnn   the default annotation of each field, an Option
\*   structAnn  the default annotation of the struct, an Option

\* The issue decoding the value of one field raises, "" when it raises none.
structIssue(sch, key, u) ==
  IF key \notin DOMAIN u THEN "is missing"
  ELSE CASE sch.types[key] \in {"number", "positiveInt"}
              /\ u[key].t # "number" -> "Expected number"
         [] sch.types[key] = "positiveInt" /\ u[key].n <= 0 ->
              "Expected a positive number"
         [] sch.types[key] = "string" /\ u[key].t # "string" ->
              "Expected string"
         [] sch.types[key] = "strings" /\ u[key].t # "array" ->
              "Expected ReadonlyArray<string>"
         [] sch.types[key] = "strings"
              /\ \E i \in 1..Len(u[key].l) : u[key].l[i].t # "string" ->
              "Expected string"
         [] OTHER -> ""

RECURSIVE structFirstIssue(_, _, _)

\* The first issue in declaration order, << >> when there is none.
structFirstIssue(sch, i, u) ==
  IF i > Len(sch.fields) THEN << >>
  ELSE IF structIssue(sch, sch.fields[i], u) # ""
         THEN <<sch.fields[i], structIssue(sch, sch.fields[i], u)>>
         ELSE structFirstIssue(sch, i + 1, u)

\* Schema.decodeUnknown(schema)(u)
decodeStruct(sch, u) ==
  IF structFirstIssue(sch, 1, u) = << >>
    THEN [ok |-> TRUE,
          value |-> [x \in {sch.fields[i] : i \in 1..Len(sch.fields)}
                             \cap DOMAIN u |-> u[x]],
          error |-> << >>]
    ELSE [ok |-> FALSE, value |-> EmptyObj,
          error |-> structFirstIssue(sch, 1, u)]

\* No field default is read: the reduce returns its seed.
structFieldDefaults_none(sch, i, acc) == acc

RECURSIVE structFieldDefaults(_, _, _)

\* Object.entries(schema.fields).reduce(..., {}), from index i on.
structFieldDefaults(sch, i, acc) ==
  IF i > Len(sch.fields) THEN acc
  ELSE LET key == sch.fields[i]
           fieldDefault == IF sch.fieldAnn[key].some
                             THEN sch.fieldAnn[key].value
                             ELSE Undef
       IN  structFieldDefaults(sch, i + 1,
             IF Truthy(fieldDefault)
               THEN Spread(acc, Single(key, fieldDefault))
               ELSE acc)

\* getSchemaDefaults(schema)
structSchemaDefaults(sch) ==
  LET structDefaults == IF sch.structAnn.some
                          THEN sch.structAnn.value
                          ELSE EmptyObj
  IN  Spread(structFieldDefaults(sch, 1, EmptyObj), structDefaults)

RECURSIVE structLenses(_, _, _)

\* createBuilderLenses(schema): the reduce over Object.entries(schema.fields),
\* from index i on.
structLenses(sch, i, acc) ==
  IF i > Len(sch.fields) THEN acc
  ELSE structLenses(sch, i + 1,
         Spread(acc, Single(sch.fields[i], createBuilderLens(sch.fields[i]))))

\* { ...schemaDefaults, ...defaults }
structMergedDefaults(sch, dflt) ==
  Spread(structSchemaDefaults(sch), IF dflt.some THEN dflt.value ELSE EmptyObj)

\* The members define adds to the accessors; field, when and build are
\* functions.
structMembers(sch, dflt) ==
  [schema |-> sch, Default |-> structMergedDefaults(sch, dflt),
   field |-> [member |-> "field"], when |-> [member |-> "when"],
   build |-> [member |-> "build"]]

\* define spreading the accessors last: { schema, Default, ..., ...lenses }.
defineStruct_lensesLast(sch, dflt) ==
  Spread(structMembers(sch, dflt), structLenses(sch, 1, EmptyObj))

\* define(schema, defaults): { ...lenses, schema, Default, field, when, build }
defineStruct(sch, dflt) ==
  Spread(structLenses(sch, 1, EmptyObj), structMembers(sch, dflt))

\* b.build(transform)
buildStruct(b, transform) ==
  LET decoded == decodeStruct(b.schema, Apply(transform, b.Default))
  IN  IF decoded.ok
        THEN [tag |-> "Success", value |-> decoded.value, message |-> << >>]
        ELSE mapError(decoded.error)

----------------------------------------------------------------------------
\* Inputs

\* Every object over the keys of ks that binds a key k to a value of vals[k].
Objects(ks, vals) ==
  UNION {[d -> UNION {vals[k] : k \in d}] : d \in SUBSET ks}

WellKeyed(o, vals) == \A k \in DOMAIN o : o[k] \in vals[k]

ObjectsOf(vals) == {o \in Objects(DOMAIN vals, vals) : WellKeyed(o, vals)}

\* Values a schema annotates a field with (D1), falsy ones included.
FieldDefaultValues ==
  [id |-> {Num(0), Num(7)},
   name |-> {Str(""), Str("Guest")},
   age |-> {Num(0), Num(21)},
   roles |-> {List(<< >>), List(<<Str("user")>>)}]

\* Values the struct-level annotation binds (D2).
StructDefaultValues ==
  [id |-> {Num(8)},
   name |-> {Str("Admin")},
   age |-> {Num(0)},
   roles |-> {List(<<Str("admin")>>)}]

\* Values the caller's defaults bind (D3).
CallerDefaultValues ==
  [id |-> {Num(0)},
   name |-> {Str("Anonymous")},
   age |-> {Undef},
   roles |-> {List(<< >>)}]

Schemas ==
  {[fieldAnn |-> fa, structAnn |-> sa] :
     fa \in {f \in [Keys -> {None} \cup {Some(v) : v \in UNION {FieldDefaultValues[k] : k \in Keys}}] :
               \A k \in Keys : f[k].some => f[k].value \in FieldDefaultValues[k]},
     sa \in {NoneObj} \cup {Some(o) : o \in ObjectsOf(StructDefaultValues)}}

CallerDefaults == {NoneObj} \cup {Some(o) : o \in ObjectsOf(CallerDefaultValues)}

\* Builders the build calls are made on: the schema annotations and caller
\* defaults of the tests and of the documentation.
TestDefaults ==
  [id |-> Num(0), name |-> Str(""), age |-> Num(0), roles |-> List(<< >>)]

CustomDefaults ==
  [id |-> Num(1), name |-> Str("default"), age |-> Num(18),
   roles |-> List(<<Str("user")>>)]

NoAnn == [k \in Keys |-> None]

BuilderConfigs ==
  {<<[fieldAnn |-> fa, structAnn |-> NoneObj], d>> :
     fa \in {NoAnn,
             [NoAnn EXCEPT !["id"] = Some(Num(7)),
                           !["roles"] = Some(List(<<Str("user")>>))],
             [NoAnn EXCEPT !["id"] = Some(Num(7)),
                           !["name"] = Some(Str("Guest")),
                           !["age"] = Some(Num(21)),
                           !["roles"] = Some(List(<< >>))]},
     d \in {NoneObj, Some(TestDefaults), Some(CustomDefaults),
            Some(Single("name", Str("Anonymous")))}}
  \cup
  {<<[fieldAnn |-> [NoAnn EXCEPT !["name"] = Some(Str("Guest"))],
      structAnn |-> Some([id |-> Num(8), name |-> Str("Admin"),
                          age |-> Num(21), roles |-> List(<< >>)])],
     d>> : d \in {NoneObj, Some(Single("name", Str("Anonymous")))}}

\* Sequences over S of length 0..n.
SeqUpTo(S, n) == UNION {[1..m -> S] : m \in 0..n}

\* The steps of the chains given to build.
BuildSteps ==
  {SetT("name", Str("John")), SetT("age", Num(30)), SetT("age", Num(-1)),
   ModifyT("age", "inc"), ModifyT("roles", "withUser"),
   ModifyT("roles", "withAdmin"),
   WhenT("isAdult", ModifyT("roles", "withUser"), SetT("roles", List(<< >>)))}

BuildTransforms == {ComposeT(c) : c \in SeqUpTo(BuildSteps, MaxChain)}

\* Transforms written by hand that write the state they are given.
UserTransforms ==
  {AssignT("name", Str("Mallory")),
   ComposeT(<<AssignT("age", Num(-1))>>),
   ComposeT(<<When1T("over50", SetT("name", Str("John"))),
              AssignT("age", Num(30))>>),
   ComposeT(<<SetT("name", Str("John")), AssignT("age", Num(-1))>>)}

\* Two builders side by side.
BuilderIds == {1, 2}

\* What each of the two is defined from: userBuilder and customBuilder of
\* the tests, and a schema carrying its own defaults.
PairConfigs ==
  {<<[fieldAnn |-> NoAnn, structAnn |-> NoneObj], Some(TestDefaults)>>,
   <<[fieldAnn |-> NoAnn, structAnn |-> NoneObj], Some(CustomDefaults)>>,
   <<[fieldAnn |-> [NoAnn EXCEPT !["id"] = Some(Num(7)),
                                 !["name"] = Some(Str("Guest")),
                                 !["age"] = Some(Num(21)),
                                 !["roles"] = Some(List(<< >>))],
      structAnn |-> NoneObj], NoneObj>>}

\* The transforms given to either of them; the last one is written by hand
\* and writes the state it is given.
PairTransforms ==
  {ComposeT(<< >>),
   ComposeT(<<SetT("name", Str("John")), ModifyT("age", "inc")>>),
   ComposeT(<<WhenT("isAdult", ModifyT("roles", "withAdmin"),
                    SetT("age", Num(-1)))>>),
   AssignT("age", Num(30))}

\* The transforms nested composes are made of.
NestedParts ==
  {SetT("name", Str("John")), SetT("age", Num(30)), ModifyT("age", "inc"),
   ModifyT("roles", "withAdmin"),
   When1T("hasRoles", SetT("roles", List(<< >>)))}

\* The defaults given to define of v0.1.0: none, those of its tests
\* (roles and more), and some binding fields the input binds too.
V010Defaults ==
  {NoneObj,
   Some(Single("roles", List(<<Str("guest")>>))),
   Some([age |-> Num(18), roles |-> List(<<Str("user")>>)]),
   Some(Single("name", Str("Anonymous"))),
   Some(Single("age", Num(-1))),
   Some(TestDefaults)}

\* UserSchema of the documentation: name: String, age: Number,
\* roles: Array(String).annotations({ default: ["user"] }).
DocSchema ==
  [fields |-> <<"name", "age", "roles">>,
   types |-> [name |-> "string", age |-> "number", roles |-> "strings"],
   fieldAnn |-> [name |-> None, age |-> None,
                 roles |-> Some(List(<<Str("user")>>))],
   structAnn |-> NoneObj]

\* A schema declaring fields named like the members of a builder.
MemberSchema ==
  [fields |-> <<"name", "schema", "Default", "field", "when", "build">>,
   types |-> [k \in {"name", "schema", "Default", "field", "when", "build"}
                |-> "string"],
   fieldAnn |-> [k \in {"name", "schema", "Default", "field", "when", "build"}
                   |-> None],
   structAnn |-> NoneObj]

\* What define is given.
StructConfigs ==
  {<<DocSchema, NoneObj>>,
   <<DocSchema, Some(Single("name", Str("Anonymous")))>>,
   <<MemberSchema, NoneObj>>,
   <<MemberSchema,
     Some([k \in {"name", "schema", "Default", "field", "when", "build"}
             |-> Str("")])>>}

\* The chains of the documentation, compose(User.name(n), User.age(a),
\* User.roles.modify(...)), and shorter ones.
DocTransforms ==
  {ComposeT(<<SetT("name", n), SetT("age", a), ModifyT("roles", f)>>) :
     n \in {Str("John"), Str("Alice")}, a \in {Num(25), Num(30)},
     f \in {"withAdmin", "withUser"}}
  \cup
  {ComposeT(c) :
     c \in SeqUpTo({SetT("name", Str("John")), SetT("age", Num(25)),
                    ModifyT("roles", "withAdmin")}, MaxChain)}

\* Chains of field(k).set(v) over the fields of MemberSchema.
MemberTransforms ==
  {ComposeT(c) :
     c \in SeqUpTo({SetT(k, Str("x")) :
                      k \in {"name", "schema", "Default", "field", "when",
                             "build"}}, MaxChain)}

\* The transforms given to the builder of the schema sch.
StructTransforms(sch) ==
  IF sch = DocSchema THEN DocTransforms ELSE MemberTransforms

\* Partial States the lenses and combinators are applied to.
StateValues ==
  [id |-> {Num(0)},
   name |-> {Str(""), Str("John"), Undef},
   age |-> {Num(0), Num(30), Undef},
   roles |-> {List(<< >>), List(<<Str("user")>>), Undef}]

States == ObjectsOf(StateValues)

SetValues ==
  [id |-> {Num(1)},
   name |-> {Str(""), Str("John")},
   age |-> {Num(-1), Num(30), Undef},
   roles |-> {List(<<Str("user")>>)}]

Sets == UNION {{SetT(k, v) : v \in SetValues[k]} : k \in Keys}

Modifies ==
  {ModifyT("age", "inc"), ModifyT("roles", "withUser"),
   ModifyT("roles", "withAdmin"), ModifyT("name", "clear")}

Atoms == Sets \cup Modifies

Preds == {"isAdult", "over50", "hasRoles"}

----------------------------------------------------------------------------
VARIABLES
  pc,        \* "new", "ready": the builder; "lens", "applied": a lens call
  schema,    \* the schema given to define
  defaults,  \* the defaults given to define
  builder,   \* what define returned
  builds,    \* build calls made so far
  t,         \* the transform last given to build, or last applied
  outcome,   \* what the last build returned
  s,         \* the Partial State a transform is applied to
  r,         \* what the transform returned
  pair       \* two builders side by side: for each, its define arguments,
             \* what define returned, the transforms given to build and
             \* what each build returned

vars == <<pc, schema, defaults, builder, builds, t, outcome, s, r, pair>>

NoBuilder == [schema |-> [fieldAnn |-> NoAnn, structAnn |-> NoneObj],
              Default |-> EmptyObj]

\* const b = define(schema, defaults)
Define ==
  /\ pc = "new"
  /\ builder' = define(schema, defaults)
  /\ pc' = "ready"
  /\ UNCHANGED <<schema, defaults, builds, t, outcome, s, r, pair>>

\* b.build(transform)
Build ==
  /\ pc = "ready"
  /\ builds < MaxBuilds
  /\ \E transform \in BuildTransforms :
       /\ t' = transform
       /\ outcome' = build(builder, transform)
       /\ builder' =
            [builder EXCEPT !.Default = defaultAfterBuild(builder, transform)]
  /\ builds' = builds + 1
  /\ UNCHANGED <<pc, schema, defaults, s, r, pair>>

\* b.build(transform) with a transform written by hand
BuildUser ==
  /\ pc = "ready"
  /\ builds < MaxBuilds
  /\ \E transform \in UserTransforms :
       /\ t' = transform
       /\ outcome' = build(builder, transform)
       /\ builder' =
            [builder EXCEPT !.Default = defaultAfterBuild(builder, transform)]
  /\ builds' = builds + 1
  /\ UNCHANGED <<pc, schema, defaults, s, r, pair>>

\* field(key).set(value)(s)
ApplySet ==
  /\ pc = "lens"
  /\ \E tr \in Sets : t' = tr /\ r' = set(tr.k, tr.v, s)
  /\ pc' = "applied"
  /\ UNCHANGED <<schema, defaults, builder, builds, outcome, s, pair>>

\* field(key).set(field(key).get(s))(s)
ApplySetGet ==
  /\ pc = "lens"
  /\ \E key \in Keys :
       /\ t' = SetT(key, get(key, s))
       /\ r' = set(key, get(key, s), s)
  /\ pc' = "applied"
  /\ UNCHANGED <<schema, defaults, builder, builds, outcome, s, pair>>

\* field(key).modify(f)(s)
ApplyModify ==
  /\ pc = "lens"
  /\ \E tr \in Modifies : t' = tr /\ r' = modify(tr.k, tr.f, s)
  /\ pc' = "applied"
  /\ UNCHANGED <<schema, defaults, builder, builds, outcome, s, pair>>

\* compose(...transforms)(s)
ApplyCompose ==
  /\ pc = "lens"
  /\ \E transforms \in SeqUpTo(Atoms, MaxChain) :
       t' = ComposeT(transforms) /\ r' = compose(transforms, s)
  /\ pc' = "applied"
  /\ UNCHANGED <<schema, defaults, builder, builds, outcome, s, pair>>

\* when(predicate, ifTrue, ifFalse)(s) and when(predicate, ifTrue)(s)
ApplyWhen ==
  /\ pc = "lens"
  /\ \E predicate \in Preds, ifTrue \in Modifies :
       \E branches \in {<<ifTrue>>} \cup {<<ifTrue, ifFalse>> : ifFalse \in Modifies} :
         /\ t' = [NoT EXCEPT !.op = "when", !.p = predicate, !.ts = branches]
         /\ r' = when(predicate, branches, s)
  /\ pc' = "applied"
  /\ UNCHANGED <<schema, defaults, builder, builds, outcome, s, pair>>

\* compose(compose(a, b), c)(s), and compose(compose(), a)(s)
ApplyNested ==
  /\ pc = "lens"
  /\ \E a \in NestedParts :
       \/ \E b \in NestedParts, c \in NestedParts :
            /\ t' = ComposeT(<<ComposeT(<<a, b>>), c>>)
            /\ r' = compose(<<ComposeT(<<a, b>>), c>>, s)
       \/ /\ t' = ComposeT(<<ComposeT(<< >>), a>>)
          /\ r' = compose(<<ComposeT(<< >>), a>>, s)
  /\ pc' = "applied"
  /\ UNCHANGED <<schema, defaults, builder, builds, outcome, s, pair>>

\* builder.k(value)(s) and builder.k.modify(f)(s), through the accessor
\* generated for the field k.
ApplyAccessor ==
  /\ pc = "lens"
  /\ \E tr \in Atoms :
       IF tr.op = "set"
         THEN /\ t' = [tr EXCEPT !.op = "accessor"]
              /\ r' = accessorSet(builder[tr.k], tr.v, s)
         ELSE /\ t' = [tr EXCEPT !.op = "accessor.modify"]
              /\ r' = accessorModify(builder[tr.k], tr.f, s)
  /\ pc' = "applied"
  /\ UNCHANGED <<schema, defaults, builder, builds, outcome, s, pair>>

Idle ==
  /\ builds = 0
  /\ t = NoT
  /\ outcome = NoOutcome

\* No second builder.
NoPair == << >>

\* A builder about to be defined, over every schema and caller defaults.
InitDefine ==
  /\ pc = "new"
  /\ schema \in Schemas
  /\ defaults \in CallerDefaults
  /\ builder = NoBuilder
  /\ Idle
  /\ s = EmptyObj
  /\ r = EmptyObj
  /\ pair = NoPair

DefineSpec == InitDefine /\ [][Define]_vars

\* A builder of the tests or the documentation, defined and then built on.
Init ==
  /\ pc = "new"
  /\ \E c \in BuilderConfigs : schema = c[1] /\ defaults = c[2]
  /\ builder = NoBuilder
  /\ Idle
  /\ s = EmptyObj
  /\ r = EmptyObj
  /\ pair = NoPair

Next == Define \/ Build

Spec == Init /\ [][Next]_vars

\* The same builders, built on with hand-written transforms too.
NextAlias == Define \/ Build \/ BuildUser

AliasSpec == Init /\ [][NextAlias]_vars

\* One of two builders about to be defined.
NewOne(c) ==
  [pc |-> "new", schema |-> c[1], defaults |-> c[2], builder |-> NoBuilder,
   hist |-> << >>, outs |-> << >>, from |-> 0]

\* const b1 = define(...) or const b2 = define(...)
DefinePair ==
  /\ pc = "pair"
  /\ \E i \in BuilderIds :
       /\ pair[i].pc = "new"
       /\ pair' = [pair EXCEPT
                     ![i].builder = define(pair[i].schema, pair[i].defaults),
                     ![i].pc = "ready"]
  /\ UNCHANGED <<pc, schema, defaults, builder, builds, t, outcome, s, r>>

\* b1.build(transform) or b2.build(transform), the transform made from the
\* lenses of either builder or written by hand.
BuildPair ==
  /\ pc = "pair"
  /\ \E i \in BuilderIds :
       /\ pair[i].pc = "ready"
       /\ Len(pair[i].hist) < MaxBuilds
       /\ \E from \in {j \in BuilderIds : pair[j].pc = "ready"},
             tr \in PairTransforms :
            LET transform == viaLenses(pair[from].builder, tr)
                o == lensState(from, closureOf(i))
                b == pair[o].builder
            IN  pair' =
                  [pair EXCEPT
                     ![i].hist = Append(@, transform),
                     ![i].outs = Append(@, build(b, transform)),
                     ![i].from = from,
                     ![o].builder =
                       [b EXCEPT
                          !.Default = defaultAfterBuild(b, transform)]]
  /\ UNCHANGED <<pc, schema, defaults, builder, builds, t, outcome, s, r>>

InitPair ==
  /\ pc = "pair"
  /\ pair \in [BuilderIds -> {NewOne(c) : c \in PairConfigs}]
  /\ schema = NoBuilder.schema
  /\ defaults = NoneObj
  /\ builder = NoBuilder
  /\ Idle
  /\ s = EmptyObj
  /\ r = EmptyObj

NextPair == DefinePair \/ BuildPair

PairSpec == InitPair /\ [][NextPair]_vars

\* builder.build(a) of v0.1.0
BuildV010 ==
  /\ pc = "v010"
  /\ outcome' = buildV010(defaults.value, s)
  /\ pc' = "built"
  /\ UNCHANGED <<schema, defaults, builder, builds, t, s, r, pair>>

\* A v0.1.0 builder over UserSchema and the state about to be given to its
\* build.
InitV010 ==
  /\ pc = "v010"
  /\ schema = NoBuilder.schema
  /\ defaults \in V010Defaults
  /\ builder = NoBuilder
  /\ Idle
  /\ s \in States
  /\ r = EmptyObj
  /\ pair = NoPair

NextV010 == BuildV010

V010Spec == InitV010 /\ [][NextV010]_vars

\* const b = define(schema, defaults), for any struct schema
DefineStruct ==
  /\ pc = "new"
  /\ builder' = defineStruct(schema, defaults)
  /\ pc' = "ready"
  /\ UNCHANGED <<schema, defaults, builds, t, outcome, s, r, pair>>

\* b.build(transform)
BuildStruct ==
  /\ pc = "ready"
  /\ builds < MaxBuilds
  /\ \E transform \in StructTransforms(schema) :
       /\ t' = transform
       /\ outcome' = buildStruct(builder, transform)
       /\ builder' =
            [builder EXCEPT !.Default = defaultAfterBuild(builder, transform)]
  /\ builds' = builds + 1
  /\ UNCHANGED <<pc, schema, defaults, s, r, pair>>

\* A builder of the documentation's schema, or of a schema whose fields are
\* named like builder members, about to be defined.
InitStruct ==
  /\ pc = "new"
  /\ \E c \in StructConfigs : schema = c[1] /\ defaults = c[2]
  /\ builder = NoBuilder
  /\ Idle
  /\ s = EmptyObj
  /\ r = EmptyObj
  /\ pair = NoPair

NextStruct == DefineStruct \/ BuildStruct

StructSpec == InitStruct /\ [][NextStruct]_vars

\* A lens or a combinator applied to a Partial State.
InitLens ==
  /\ pc = "lens"
  /\ s \in States
  /\ r = s
  /\ schema = NoBuilder.schema
  /\ defaults = NoneObj
  /\ builder = define(schema, defaults)
  /\ Idle
  /\ pair = NoPair

NextLens ==
  \/ ApplySet \/ ApplySetGet \/ ApplyModify \/ ApplyCompose \/ ApplyWhen
  \/ ApplyNested \/ ApplyAccessor

LensSpec == InitLens /\ [][NextLens]_vars

----------------------------------------------------------------------------
\* Properties of define and build

\* u satisfies UserSchema: decoding no declared field raises an issue.
Satisfies(u) == \A k \in Keys : FieldIssue(k, u) = ""

\* The caller gave define a default for k.
CallerBinds(k) == defaults.some /\ k \in DOMAIN defaults.value

\* The struct-level annotation binds k.
StructBinds(k) == schema.structAnn.some /\ k \in DOMAIN schema.structAnn.value

\* C1: build(t) decodes t(Default): it succeeds with the validated structure
\* when t(Default) satisfies the schema, and fails when it does not.
C1_BuildDecodesTransformedDefault ==
  builds > 0 =>
    LET final == Apply(t, builder.Default)
    IN  IF Satisfies(final)
          THEN /\ outcome.tag = "Success"
               /\ outcome.value = [k \in Keys |-> final[k]]
          ELSE outcome.tag = "ValidationError"

\* A build succeeded on a state the transform changed, from defaults that
\* alone do not satisfy the schema.
C1_Witness ==
  /\ builds > 0
  /\ outcome.tag = "Success"
  /\ ~Satisfies(builder.Default)
  /\ builder.Default # EmptyObj

\* C2: a build ends with one outcome, a structure that satisfies the whole
\* schema or one ValidationError, never a partly populated object; define
\* always returns a builder.
C2_BuildOneOutcome ==
  /\ pc = "ready" => DOMAIN builder.Default \subseteq Keys
  /\ builds > 0 =>
       \/ /\ outcome.tag = "Success"
          /\ DOMAIN outcome.value = Keys
          /\ Satisfies(outcome.value)
          /\ outcome.message = << >>
       \/ /\ outcome.tag = "ValidationError"
          /\ outcome.value = EmptyObj
          /\ Len(outcome.message) = 3
          /\ outcome.message[1] = "Schema validation failed: "

\* A build failed although the transformed state holds valid fields.
C2_Witness ==
  /\ builds > 0
  /\ outcome.tag = "ValidationError"
  /\ \E k \in Keys : FieldIssue(k, Apply(t, builder.Default)) = ""
  /\ \E k \in Keys : FieldIssue(k, Apply(t, builder.Default)) = "is missing"

C4_StructDefaultsWinOverField ==
  pc = "ready" =>
    \A k \in Keys :
      (StructBinds(k) /\ ~CallerBinds(k)) =>
        k \in DOMAIN builder.Default
        /\ builder.Default[k] = schema.structAnn.value[k]

\* A key has a truthy field default and a different struct default, and no
\* caller default; another key is bound by the struct record alone.
C4_Witness ==
  /\ pc = "ready"
  /\ \E k \in Keys :
       /\ StructBinds(k) /\ ~CallerBinds(k) /\ schema.fieldAnn[k].some
       /\ Truthy(schema.fieldAnn[k].value)
       /\ schema.structAnn.value[k] # schema.fieldAnn[k].value
  /\ \E k \in Keys :
       StructBinds(k) /\ ~CallerBinds(k) /\ ~schema.fieldAnn[k].some

\* C5: with no struct-level and no caller default for k, a field annotated
\* with the default d is bound to d in Default, for every d; a field with no
\* default from any source is absent from Default.
C5_FieldDefaultSeeded ==
  pc = "ready" =>
    \A k \in Keys :
      (~StructBinds(k) /\ ~CallerBinds(k)) =>
        IF schema.fieldAnn[k].some
          THEN k \in DOMAIN builder.Default
               /\ builder.Default[k] = schema.fieldAnn[k].value
          ELSE k \notin DOMAIN builder.Default

----------------------------------------------------------------------------
\* Properties of the lenses and of compose

\* The object o without the key k.
Without(o, k) == [x \in (DOMAIN o) \ {k} |-> o[x]]

\* t is compose(set(k, a), set(k, b)) on one key k.
TwoSetsOfOneKey ==
  /\ t.op = "compose"
  /\ Len(t.ts) = 2
  /\ t.ts[1].op = "set"
  /\ t.ts[2].op = "set"
  /\ t.ts[1].k = t.ts[2].k

\* t is compose(modify(k, f), modify(k, g)) on one key k.
TwoModifiesOfOneKey ==
  /\ t.op = "compose"
  /\ Len(t.ts) = 2
  /\ t.ts[1].op = "modify"
  /\ t.ts[2].op = "modify"
  /\ t.ts[1].k = t.ts[2].k

\* C6: get after set: field(k).get(field(k).set(v)(s)) is v.
C6_GetAfterSet ==
  (pc = "applied" /\ t.op = "set") => get(t.k, r) = t.v

\* A set was applied to a state that bound the key to another value.
C6_Witness ==
  /\ pc = "applied"
  /\ t.op = "set"
  /\ t.k \in DOMAIN s
  /\ s[t.k] # t.v
  /\ s[t.k] # Undef

\* C7: last write wins: set(k, b)(set(k, a)(s)) is set(k, b)(s), and the
\* state after a set of k is the same whatever k was bound to before.
C7_LastWriteWins ==
  pc = "applied" =>
    /\ TwoSetsOfOneKey => r = set(t.ts[2].k, t.ts[2].v, s)
    /\ t.op = "set" =>
         \A o \in States :
           Without(o, t.k) = Without(s, t.k) => set(t.k, t.v, o) = r

\* Two sets of one key with different values were applied to a state that
\* bound the key to a third value.
C7_Witness ==
  /\ pc = "applied"
  /\ TwoSetsOfOneKey
  /\ t.ts[1].v # t.ts[2].v
  /\ t.ts[1].k \in DOMAIN s
  /\ s[t.ts[1].k] \notin {t.ts[1].v, t.ts[2].v}

\* C8: modify of an absent field returns the state unchanged, with the same
\* fields present.
C8_ModifyAbsentIsNoOp ==
  (pc = "applied" /\ t.op = "modify" /\ t.k \notin DOMAIN s) =>
    r = s /\ DOMAIN r = DOMAIN s

\* A modify was applied to a state that lacks its field and has others.
C8_Witness ==
  /\ pc = "applied"
  /\ t.op = "modify"
  /\ t.k \notin DOMAIN s
  /\ s # EmptyObj

\* C9 as stated: a field present with the value c is rebound to f(c), for
\* every c, and modify(k, f) then modify(k, g) binds k to g(f(c)).
C9_ModifyPresentRebinds ==
  pc = "applied" =>
    /\ (t.op = "modify" /\ t.k \in DOMAIN s) =>
         r = [x \in DOMAIN s |->
                IF x = t.k THEN ApplyFn(t.f, s[t.k]) ELSE s[x]]
    /\ (TwoModifiesOfOneKey /\ t.ts[1].k \in DOMAIN s) =>
         r = [x \in DOMAIN s |->
                IF x = t.ts[1].k
                  THEN ApplyFn(t.ts[2].f, ApplyFn(t.ts[1].f, s[x]))
                  ELSE s[x]]

\* C9 amended: a field present with a value c other than undefined is
\* rebound to f(c), the rest of the state unchanged; modify(k, f) then
\* modify(k, g) binds k to g(f(c)) when f(c) is not undefined either.
C9_ModifyDefinedRebinds ==
  pc = "applied" =>
    /\ (t.op = "modify" /\ get(t.k, s) # Undef) =>
         r = [x \in DOMAIN s |->
                IF x = t.k THEN ApplyFn(t.f, s[t.k]) ELSE s[x]]
    /\ (/\ TwoModifiesOfOneKey
        /\ get(t.ts[1].k, s) # Undef
        /\ ApplyFn(t.ts[1].f, get(t.ts[1].k, s)) # Undef) =>
         r = [x \in DOMAIN s |->
                IF x = t.ts[1].k
                  THEN ApplyFn(t.ts[2].f, ApplyFn(t.ts[1].f, s[x]))
                  ELSE s[x]]

\* roles ["user"] was modified by withUser and then withAdmin, in a state
\* with other fields.
C9_Witness ==
  /\ pc = "applied"
  /\ TwoModifiesOfOneKey
  /\ t.ts[1].f # t.ts[2].f
  /\ get("roles", s) = List(<<Str("user")>>)
  /\ get("roles", r) = List(<<Str("user"), Str("user"), Str("admin")>>)
  /\ DOMAIN s # {"roles"}

RECURSIVE Nested(_, _, _)

\* tn(...t2(t1(a))...) for the first n transforms of ts.
Nested(ts, n, a) ==
  IF n = 0 THEN a ELSE Apply(ts[n], Nested(ts, n - 1, a))

\* C10: compose(t1, ..., tn)(s) is tn(...t2(t1(s))...), and compose()(s)
\* is s.
C10_ComposeLeftToRight ==
  (pc = "applied" /\ t.op = "compose") =>
    /\ r = Nested(t.ts, Len(t.ts), s)
    /\ Len(t.ts) = 0 => r = s

\* A chain of the greatest length was applied whose result depends on the
\* order of its transforms.
C10_Witness ==
  /\ pc = "applied"
  /\ t.op = "compose"
  /\ Len(t.ts) = MaxChain
  /\ r # reduce(Reverse(t.ts), 1, s)
  /\ r # s

----------------------------------------------------------------------------
\* Properties of when

\* C11: when(pred, ifTrue, ifFalse)(s) is ifTrue(s) when pred(s) holds and
\* ifFalse(s) otherwise, s itself when no ifFalse is given: one branch is
\* applied, never both and never neither.
C11_WhenAppliesOneBranch ==
  (pc = "applied" /\ t.op = "when") =>
    /\ Pred(t.p, s) => r = Apply(t.ts[1], s)
    /\ (~Pred(t.p, s) /\ Len(t.ts) = 2) => r = Apply(t.ts[2], s)
    /\ (~Pred(t.p, s) /\ Len(t.ts) = 1) => r = s

\* A when with two branches was applied to a state on which the branches,
\* both of them in turn, and neither of them give four different results.
C11_Witness ==
  /\ pc = "applied"
  /\ t.op = "when"
  /\ Len(t.ts) = 2
  /\ ~Pred(t.p, s)
  /\ Apply(t.ts[1], s) # Apply(t.ts[2], s)
  /\ Apply(t.ts[1], s) # s
  /\ r # s
  /\ r # Apply(t.ts[2], Apply(t.ts[1], s))
  /\ r # Apply(t.ts[1], Apply(t.ts[2], s))

----------------------------------------------------------------------------
\* Properties of build chains

\* t is compose(set(k, v), when(p, ...)).
SetThenWhen ==
  /\ t.op = "compose"
  /\ Len(t.ts) = 2
  /\ t.ts[1].op = "set"
  /\ t.ts[2].op = "when"

\* The state the when of a SetThenWhen chain must produce: its predicate
\* evaluated on the defaults with k bound to v.
AfterSetThenWhen ==
  LET mid == [x \in (DOMAIN builder.Default) \cup {t.ts[1].k} |->
                IF x = t.ts[1].k THEN t.ts[1].v ELSE builder.Default[x]]
      w == t.ts[2]
  IN  IF Pred(w.p, mid) THEN Apply(w.ts[1], mid)
      ELSE IF Len(w.ts) > 1 THEN Apply(w.ts[2], mid) ELSE mid

\* C12: in build(compose(set(k, v), when(p, a, b))) the predicate p is
\* evaluated on the state in which k is bound to v, not on Default.
C12_WhenSeesPrecedingSet ==
  (builds > 0 /\ SetThenWhen) =>
    IF Satisfies(AfterSetThenWhen)
      THEN /\ outcome.tag = "Success"
           /\ outcome.value = AfterSetThenWhen
      ELSE outcome.tag = "ValidationError"

\* A build of such a chain succeeded where the predicate differs between
\* Default, which binds k to another value, and the state after the set.
C12_Witness ==
  /\ builds > 0
  /\ SetThenWhen
  /\ outcome.tag = "Success"
  /\ t.ts[1].k \in DOMAIN builder.Default
  /\ builder.Default[t.ts[1].k] # t.ts[1].v
  /\ Pred(t.ts[2].p, builder.Default) # Pred(t.ts[2].p, outcome.value)
  /\ outcome.value["roles"] # builder.Default["roles"]

\* C13: round trip: when Default satisfies the schema, build(compose())
\* succeeds with a structure equal to Default.
C13_RoundTrip ==
  (builds > 0 /\ t = ComposeT(<< >>) /\ Satisfies(builder.Default)) =>
    outcome.tag = "Success" /\ outcome.value = builder.Default

\* build(compose()) was called on a builder whose defaults satisfy the
\* schema and come from the caller.
C13_Witness ==
  /\ builds > 0
  /\ t = ComposeT(<< >>)
  /\ Satisfies(builder.Default)
  /\ defaults.some
  /\ outcome.tag = "Success"

\* t is a chain of set operations.
OnlySets == t.op = "compose" /\ \A i \in 1..Len(t.ts) : t.ts[i].op = "set"

\* The positions of the chain ts that write the key k.
Writes(ts, k) == {i \in 1..Len(ts) : ts[i].k = k}

\* The greatest element of a non-empty set of numbers.
Last(S) == CHOOSE i \in S : \A j \in S : j <= i

\* C14: a successful build of a chain of sets binds each key the chain
\* writes to the value of the last set on it, and every other key to
\* Default's value.
C14_SetsOverDefaults ==
  (builds > 0 /\ OnlySets /\ outcome.tag = "Success") =>
    \A k \in Keys :
      /\ k \in DOMAIN outcome.value
      /\ IF Writes(t.ts, k) # {}
           THEN outcome.value[k] = t.ts[Last(Writes(t.ts, k))].v
           ELSE k \in DOMAIN builder.Default
                /\ outcome.value[k] = builder.Default[k]

\* The builder of the tests built name "John" and age 30 over its defaults.
C14_Witness ==
  /\ builds > 0
  /\ OnlySets
  /\ defaults = Some(TestDefaults)
  /\ outcome.tag = "Success"
  /\ outcome.value = [id |-> Num(0), name |-> Str("John"), age |-> Num(30),
                      roles |-> List(<< >>)]

\* The declared fields of u that raise an issue, by position in Fields.
Failing(u) == {i \in 1..Len(Fields) : FieldIssue(Fields[i], u) # ""}

\* The least element of a non-empty set of numbers.
First(S) == CHOOSE i \in S : \A j \in S : i <= j

\* C15: the message of a ValidationError is "Schema validation failed: "
\* followed by the schema's failure description, which names the offending
\* field and the violated constraint: for a non-positive age, the age field
\* and the positivity constraint.
C15_MessageCarriesSchemaFailure ==
  (builds > 0 /\ outcome.tag = "ValidationError") =>
    LET final == Apply(t, builder.Default)
    IN  /\ Failing(final) # {}
        /\ outcome.message =
             <<"Schema validation failed: ",
               Fields[First(Failing(final))],
               FieldIssue(Fields[First(Failing(final))], final)>>
        /\ (/\ FieldIssue("id", final) = ""
            /\ FieldIssue("name", final) = ""
            /\ get("age", final).t = "number"
            /\ get("age", final).n <= 0) =>
             /\ outcome.message[2] = "age"
             /\ outcome.message[3] = "Expected a positive number"

\* A build that set the age to -1 failed on the age field.
C15_Witness ==
  /\ builds > 0
  /\ outcome.tag = "ValidationError"
  /\ get("age", Apply(t, builder.Default)) = Num(-1)
  /\ outcome.message[2] = "age"
  /\ outcome.message[3] = "Expected a positive number"

----------------------------------------------------------------------------
\* Properties of the generated accessors

\* The members define adds to the lenses.
OwnMembers == {"schema", "Default", "field", "when", "build"}

----------------------------------------------------------------------------
\* Properties of the defaults across build calls

\* C17: after any sequence of build calls with transforms made of set,
\* modify, compose and when, builder.Default is the value define resolved.
C17_DefaultNeverChanges ==
  pc = "ready" =>
    /\ builder.Default = mergedDefaults(schema, defaults)
    /\ builder.Default = define(schema, defaults).Default

\* The last of MaxBuilds builds set a key that Default binds to another
\* value, and succeeded.
C17_Witness ==
  /\ builds = MaxBuilds
  /\ outcome.tag = "Success"
  /\ \E i \in 1..Len(t.ts) :
       /\ t.ts[i].op = "set"
       /\ t.ts[i].k \in DOMAIN builder.Default
       /\ builder.Default[t.ts[i].k] # t.ts[i].v
       /\ outcome.value[t.ts[i].k] = t.ts[i].v

\* C18: every build hands its transform a fresh object holding the resolved
\* defaults, so that a write to the state during one build is seen neither
\* through builder.Default nor by a later build.
C18_BuildStateIsFresh ==
  pc = "ready" =>
    /\ builder.Default = mergedDefaults(schema, defaults)
    /\ builds > 0 =>
         outcome = build(define(schema, defaults), t)

----------------------------------------------------------------------------
\* Properties of two builders and of reused transforms

RECURSIVE alone(_, _, _)

\* The builder b and what its builds returned after the first n build calls
\* of hist, made on b with no other builder around.
alone(b, hist, n) ==
  IF n = 0
    THEN [builder |-> b, outs |-> << >>]
    ELSE LET p == alone(b, hist, n - 1)
         IN  [builder |->
                [p.builder EXCEPT
                   !.Default = defaultAfterBuild(p.builder, hist[n])],
              outs |-> Append(p.outs, build(p.builder, hist[n]))]

Others(i) == BuilderIds \ {i}

\* C19: in every interleaving of define and build calls on two builders,
\* each build returns what it returns when its builder is used alone, and
\* each builder's Default is what its own builds alone leave.
C19_BuildersIndependent ==
  pc = "pair" =>
    \A i \in BuilderIds :
      pair[i].pc = "ready" =>
        LET a == alone(define(pair[i].schema, pair[i].defaults),
                       pair[i].hist, Len(pair[i].hist))
        IN  /\ pair[i].outs = a.outs
            /\ pair[i].builder.Default = a.builder.Default

\* Two builders with different defaults, both built on, one of them with
\* the hand-written writer; the same last transform gave different outcomes.
C19_Witness ==
  /\ pc = "pair"
  /\ \E i \in BuilderIds : \E j \in Others(i) :
       /\ Len(pair[i].hist) > 0 /\ Len(pair[j].hist) > 0
       /\ pair[i].defaults # pair[j].defaults
       /\ \E n \in 1..Len(pair[i].hist) : pair[i].hist[n].op = "assign"
       /\ pair[i].builder.Default # pair[j].builder.Default
       /\ pair[i].hist[Len(pair[i].hist)] = pair[j].hist[Len(pair[j].hist)]
       /\ pair[i].outs[Len(pair[i].outs)] # pair[j].outs[Len(pair[j].outs)]

\* What build returns for the transformed state u.
OutcomeOf(u) ==
  LET decoded == decodeUnknown(u)
  IN  IF decoded.ok
        THEN [tag |-> "Success", value |-> decoded.value, message |-> << >>]
        ELSE mapError(decoded.error)

\* Made of set, modify, compose and when only.
FromLenses(hist) == \A n \in 1..Len(hist) : hist[n].op # "assign"

\* C20: the same transform given to build several times on one builder
\* returns equal outcomes, failures included, and a transform made from one
\* builder's lenses and given to another builder is applied to the resolved
\* defaults of the builder it is given to.
C20_TransformReusable ==
  pc = "pair" =>
    \A i \in BuilderIds :
      (pair[i].pc = "ready" /\ FromLenses(pair[i].hist)) =>
        /\ \A j, k \in 1..Len(pair[i].hist) :
             pair[i].hist[j] = pair[i].hist[k] =>
               pair[i].outs[j] = pair[i].outs[k]
        /\ \A n \in 1..Len(pair[i].hist) :
             pair[i].outs[n] =
               OutcomeOf(Apply(pair[i].hist[n],
                               mergedDefaults(pair[i].schema,
                                              pair[i].defaults)))

\* A builder given twice a transform made from the other builder's lenses;
\* it failed twice with one error, on defaults that are not the other
\* builder's, with which the transform succeeds.
C20_Witness ==
  /\ pc = "pair"
  /\ \E i \in BuilderIds : \E j \in Others(i) :
       /\ pair[i].from = j
       /\ Len(pair[i].hist) >= 2
       /\ FromLenses(pair[i].hist)
       /\ pair[i].hist[1] = pair[i].hist[2]
       /\ pair[i].outs[1].tag = "ValidationError"
       /\ pair[i].outs[2] = pair[i].outs[1]
       /\ pair[j].pc = "ready"
       /\ OutcomeOf(Apply(pair[i].hist[2],
                          mergedDefaults(pair[j].schema, pair[j].defaults)))
            .tag = "Success"

----------------------------------------------------------------------------
\* Properties of the builder of the tests

RECURSIVE WritesKey(_, _)

\* The transform holds a set or a modify of the key k.
WritesKey(transform, k) ==
  CASE transform.op \in {"set", "modify", "assign"} -> transform.k = k
    [] transform.op \in {"compose", "when"} ->
         \E i \in 1..Len(transform.ts) : WritesKey(transform.ts[i], k)
    [] OTHER -> FALSE

\* userBuilder of the tests was built on with a transform that leaves age
\* alone.
TestBuilderAgeUnwritten ==
  /\ builds > 0
  /\ schema = [fieldAnn |-> NoAnn, structAnn |-> NoneObj]
  /\ defaults = Some(TestDefaults)
  /\ ~WritesKey(t, "age")

----------------------------------------------------------------------------
\* Lens laws and frames

\* C23: set after get: for every Partial State s and field k, present or
\* not, field(k).set(field(k).get(s))(s) is s, with the same fields present.
C23_SetAfterGet ==
  (pc = "applied" /\ t.op = "set" /\ t.v = get(t.k, s)) =>
    r = s /\ DOMAIN r = DOMAIN s

\* C24: frame of set: every field j other than k is present after
\* set(k, v)(s) exactly when it is present in s, and bound to the same value.
C24_SetFrame ==
  (pc = "applied" /\ t.op = "set") =>
    \A j \in Keys \ {t.k} :
      /\ j \in DOMAIN r <=> j \in DOMAIN s
      /\ j \in DOMAIN s => r[j] = s[j]

\* A set changed the value of its field in a state that has another field
\* present and a third one absent.
C24_Witness ==
  /\ pc = "applied"
  /\ t.op = "set"
  /\ r # s
  /\ \E j \in Keys \ {t.k} : j \in DOMAIN s /\ s[j] # Undef
  /\ \E j \in Keys \ {t.k} : j \notin DOMAIN s

\* t is made of set, modify, compose and when.
LibraryTransform == t.op \in {"set", "modify", "compose", "when"}

\* C25: a transform made of set, modify, compose and when leaves the state
\* it is given as it was, and returns what was computed from it.
C25_ArgumentNotMutated ==
  (pc = "applied" /\ LibraryTransform) =>
    /\ Run(t, s).arg = s
    /\ Run(t, s).ret = r

\* A chain whose first step returned the state itself (a modify of an
\* undefined field) and whose second step wrote a field was applied.
C25_Witness ==
  /\ pc = "applied"
  /\ t.op = "compose"
  /\ Len(t.ts) = 2
  /\ t.ts[1].op = "modify"
  /\ Run(t.ts[1], s).same
  /\ t.ts[2].op \in {"set", "modify"}
  /\ r # s
  /\ s # EmptyObj

\* C26: modify(k, f) of a field present but bound to undefined returns the
\* state unchanged without calling f, as for an absent field; every other
\* present value, falsy ones (0, "", []) included, is passed to f and
\* rebound.
C26_ModifyGuardsUndefinedOnly ==
  (pc = "applied" /\ t.op = "modify") =>
    /\ get(t.k, s) = Undef => (r = s /\ DOMAIN r = DOMAIN s)
    /\ (t.k \in DOMAIN s /\ s[t.k] # Undef) =>
         /\ DOMAIN r = DOMAIN s
         /\ r[t.k] = ApplyFn(t.f, s[t.k])
         /\ \A j \in DOMAIN s \ {t.k} : r[j] = s[j]

\* A modify whose function maps undefined to a value was applied to a state
\* that binds its field to undefined.
C26_Witness ==
  /\ pc = "applied"
  /\ t.op = "modify"
  /\ t.k \in DOMAIN s
  /\ s[t.k] = Undef
  /\ ApplyFn(t.f, Undef) # Undef
  /\ r = s

\* The bijections of 1..n.
Perms(n) == {p \in [1..n -> 1..n] : \A i, j \in 1..n : p[i] = p[j] => i = j}

\* t is a chain of sets on pairwise distinct fields.
SetsOfDistinctKeys ==
  /\ t.op = "compose"
  /\ \A i \in 1..Len(t.ts) : t.ts[i].op = "set"
  /\ \A i, j \in 1..Len(t.ts) : t.ts[i].k = t.ts[j].k => i = j

\* C27: sets on different fields commute: every reordering of a chain of
\* sets on pairwise distinct fields gives the same state, and so the same
\* build outcome.
C27_SetsCommute ==
  (pc = "applied" /\ SetsOfDistinctKeys) =>
    \A p \in Perms(Len(t.ts)) :
      LET reordered == [i \in 1..Len(t.ts) |-> t.ts[p[i]]]
      IN  /\ compose(reordered, s) = r
          /\ OutcomeOf(compose(reordered, s)) = OutcomeOf(r)

\* Two sets on different fields, each changing its field, were applied.
C27_Witness ==
  /\ pc = "applied"
  /\ SetsOfDistinctKeys
  /\ Len(t.ts) >= 2
  /\ get(t.ts[1].k, s) # t.ts[1].v
  /\ get(t.ts[2].k, s) # t.ts[2].v
  /\ set(t.ts[1].k, t.ts[1].v, s) # set(t.ts[2].k, t.ts[2].v, s)

\* t is compose(compose(a, b), c).
LeftNested ==
  /\ t.op = "compose"
  /\ Len(t.ts) = 2
  /\ t.ts[1].op = "compose"
  /\ Len(t.ts[1].ts) = 2

\* t is compose(compose(), a).
UnitNested ==
  /\ t.op = "compose"
  /\ Len(t.ts) = 2
  /\ t.ts[1] = ComposeT(<< >>)

\* C28: compose is associative with the identity as unit:
\* compose(compose(a, b), c)(s), compose(a, compose(b, c))(s) and
\* compose(a, b, c)(s) are equal, and compose(compose(), a)(s),
\* compose(a, compose())(s), compose(a)(s) and a(s) are equal.
C28_ComposeAssociative ==
  pc = "applied" =>
    /\ LeftNested =>
         LET a == t.ts[1].ts[1]
             b == t.ts[1].ts[2]
             c == t.ts[2]
         IN  /\ r = compose(<<a, ComposeT(<<b, c>>)>>, s)
             /\ r = compose(<<a, b, c>>, s)
    /\ UnitNested =>
         LET a == t.ts[2]
         IN  /\ r = compose(<<a, ComposeT(<< >>)>>, s)
             /\ r = compose(<<a>>, s)
             /\ r = Apply(a, s)

\* compose(compose(a, b), c) was applied with three steps that each change
\* the state they get and whose order matters.
C28_Witness ==
  /\ pc = "applied"
  /\ LeftNested
  /\ Apply(t.ts[1].ts[1], s) # s
  /\ Apply(t.ts[1], s) # Apply(t.ts[1].ts[1], s)
  /\ r # Apply(t.ts[1], s)
  /\ r # compose(<<t.ts[2], t.ts[1].ts[2], t.ts[1].ts[1]>>, s)

----------------------------------------------------------------------------
\* Properties of build in v0.1.0

\* C30: build(a) of v0.1.0 decodes a overlaid with the caller defaults:
\* every key the defaults bind is decoded to the default's value, whether a
\* lacks it or binds it to another value, and every other key to a's value.
C30_V010DefaultsOverlayInput ==
  pc = "built" =>
    /\ outcome = OutcomeOf([k \in DOMAIN s \cup DOMAIN defaults.value |->
                              IF k \in DOMAIN defaults.value
                                THEN defaults.value[k]
                                ELSE s[k]])
    /\ outcome.tag = "Success" =>
         /\ \A k \in DOMAIN defaults.value :
              outcome.value[k] = defaults.value[k]
         /\ \A k \in Keys \ DOMAIN defaults.value :
              k \in DOMAIN s /\ outcome.value[k] = s[k]

\* A build succeeded on an input that lacks one field the defaults bind and
\* binds another one to a value that is not the default's.
C30_Witness ==
  /\ pc = "built"
  /\ outcome.tag = "Success"
  /\ \E k \in DOMAIN defaults.value : k \notin DOMAIN s
  /\ \E k \in DOMAIN defaults.value :
       /\ k \in DOMAIN s
       /\ s[k] # defaults.value[k]
       /\ outcome.value[k] = defaults.value[k]
  /\ \E k \in Keys : k \notin DOMAIN defaults.value

----------------------------------------------------------------------------
\* Properties of builders over other schemas

\* t is compose(name(n), age(a), roles.modify(rs => [...rs, x])).
DocChain ==
  /\ t.op = "compose"
  /\ Len(t.ts) = 3
  /\ t.ts[1].op = "set" /\ t.ts[1].k = "name"
  /\ t.ts[2].op = "set" /\ t.ts[2].k = "age"
  /\ t.ts[3].op = "modify" /\ t.ts[3].k = "roles"

\* C21: with the schema of the documentation (roles defaulting to ["user"],
\* no default for name and age) and no caller defaults,
\* build(compose(name(n), age(a), roles.modify(rs => [...rs, x]))) succeeds
\* with {name: n, age: a, roles: ["user", x]}.
C21_ModifyOnSchemaDefault ==
  (builds > 0 /\ schema = DocSchema /\ defaults = NoneObj /\ DocChain) =>
    /\ outcome.tag = "Success"
    /\ outcome.value =
         [name |-> t.ts[1].v, age |-> t.ts[2].v,
          roles |-> List(<<Str("user"),
                           Str(IF t.ts[3].f = "withAdmin"
                                 THEN "admin" ELSE "user")>>)]

\* The chain of the documentation was built: Alice, 30, "admin" appended.
C21_Witness ==
  /\ builds > 0
  /\ schema = DocSchema
  /\ defaults = NoneObj
  /\ t = ComposeT(<<SetT("name", Str("Alice")), SetT("age", Num(30)),
                    ModifyT("roles", "withAdmin")>>)
  /\ outcome.tag = "Success"
  /\ outcome.value["roles"] = List(<<Str("user"), Str("admin")>>)

\* The declared fields of the schema.
Declared == {schema.fields[i] : i \in 1..Len(schema.fields)}

\* C29: the builder's own members take precedence over generated accessors
\* of the same name: for a declared field named schema, Default, field, when
\* or build, builder.<name> is the member and not the accessor; field(<name>)
\* is still a working lens; every other declared field keeps its accessor.
C29_MembersShadowAccessors ==
  pc = "ready" =>
    /\ DOMAIN builder = Declared \cup OwnMembers
    /\ builder["schema"] = schema
    /\ builder["Default"] = structMergedDefaults(schema, defaults)
    /\ builder["field"] = [member |-> "field"]
    /\ builder["when"] = [member |-> "when"]
    /\ builder["build"] = [member |-> "build"]
    /\ \A k \in Declared \ OwnMembers : builder[k] = [lens |-> k]
    /\ (builds > 0 /\ outcome.tag = "Success") =>
         \A i \in 1..Len(t.ts) :
           (t.ts[i].op = "set" /\ \A j \in (i + 1)..Len(t.ts) :
                                   t.ts[j].k # t.ts[i].k) =>
             outcome.value[t.ts[i].k] = t.ts[i].v

\* On a schema declaring fields named like the members, a build succeeded
\* whose chain set the field named build through field("build").
C29_Witness ==
  /\ pc = "ready"
  /\ Declared \cap OwnMembers = OwnMembers
  /\ builds > 0
  /\ outcome.tag = "Success"
  /\ \E i \in 1..Len(t.ts) : t.ts[i].op = "set" /\ t.ts[i].k = "build"
  /\ outcome.value["build"] = Str("x")
  /\ builder["build"] = [member |-> "build"]
  /\ builder["name"] = [lens |-> "name"]

=============================================================================
